---- MODULE Spec2Model ----
(***************************************************************************)
(* Voxel back-projection (cryodrgn/commands/backproject_voxel.py):         *)
(* the splat add_slice, and the driver main that calls it per image.       *)
(*                                                                         *)
(* Numbers.  A coordinate is an integer numerator p over the fixed         *)
(* denominator Den (the real coordinate is p / Den).  A weight             *)
(* 1 - sqrt(n) / Den is irrational in general, so a real number is kept    *)
(* exactly as its integer coefficients over the square roots of the        *)
(* square-free numbers (these roots are linearly independent over the      *)
(* rationals, so two such vectors are equal exactly when the reals are):   *)
(* a[r] stands for the term a[r] * sqrt(r) / Den.                          *)
(***************************************************************************)
EXTENDS Integers, Sequences, FiniteSets, TLC

\* ---- bounds of the model
HalfD == 1        \* the volume side is D = 2 * HalfD + 1
Den == 3          \* sub-voxel resolution of the sample coordinates
Margin == 1       \* how far (in 1/Den) a sample may lie outside the volume on x
MaxY == 2         \* y numerators of the splat's samples range over 0..MaxY
MaxZ == 1         \* z numerators of the splat's samples range over 0..MaxZ
MaxVal == 2       \* coefficient values range over 1..MaxVal
MaxSamples == 2   \* samples splatted in one run of the splat specification
MaxImg == 2       \* the dataset of main holds 1..MaxImg images
MaxFirst == 3     \* --first ranges over -1..MaxFirst
MaxRows == 3      \* the CTF table holds 0..MaxRows rows
SubsetImages == 2 \* images of the set that is split in two subsets

D == 2 * HalfD + 1
d2 == D \div 2

Idx == 0..(D - 1)
Voxels == Idx \X Idx \X Idx

\* ---- exact arithmetic
IsSquareFree(r) == \A k \in 2..r : r % (k * k) # 0
Basis == {r \in 1..(Den * Den) : IsSquareFree(r)}
\* the number a / Den + n * sqrt(r) / Den (no root term if r = 0)
Build(a, r, n) ==
    [q \in Basis |-> (IF q = 1 THEN a ELSE 0) + (IF q = r THEN n ELSE 0)]
Num(a) == Build(a, 0, 0)
Zero == Num(0)
One == Num(Den)
Plus(a, b) == [q \in DOMAIN a |-> a[q] + b[q]]
Times(k, a) == [q \in DOMAIN a |-> k * a[q]]
SquarePart(n) ==
    CHOOSE s \in 1..Den : n % (s * s) = 0 /\ \A k \in (s + 1)..Den : n % (k * k) # 0
\* 1 - sqrt(n / Den^2), for 0 <= n <= Den^2
OneMinusSqrt(n) ==
    IF n = 0 THEN One
    ELSE LET s == SquarePart(n) IN Plus(One, Build(0, n \div (s * s), -s))

ZeroVolume == [x \in Voxels |-> Zero]

\* ---- add_slice
Floor(p) == p \div Den
Ceil_up(p) == (p \div Den) + 1
Ceil(p) == -((-p) \div Den)

\* the eight add_for_corner calls, in the order of the code; each entry says,
\* for x, y and z, whether the floor or the ceil is passed
CornerOrder ==
    << <<"f", "f", "f">>, <<"c", "f", "f">>, <<"f", "c", "f">>, <<"f", "f", "c">>,
       <<"c", "c", "f">>, <<"f", "c", "c">>, <<"c", "f", "c">>, <<"c", "c", "c">> >>

\* (xi, yi, zi) of one sample for one add_for_corner call
Corner(p, sel) ==
    << IF sel[1] = "f" THEN Floor(p[1]) ELSE Ceil(p[1]),
       IF sel[2] = "f" THEN Floor(p[2]) ELSE Ceil(p[2]),
       IF sel[3] = "f" THEN Floor(p[3]) ELSE Ceil(p[3]) >>

\* dist.pow(2).sum(0), in units of 1 / Den^2
Dist2(cn, p) ==
    (Den * cn[1] - p[1]) * (Den * cn[1] - p[1])
  + (Den * cn[2] - p[2]) * (Den * cn[2] - p[2])
  + (Den * cn[3] - p[3]) * (Den * cn[3] - p[3])

\* w = 1 - dist2.pow(0.5); w[w < 0] = 0
Weight(n) == IF n > Den * Den THEN Zero ELSE OneMinusSqrt(n)
\* the weights of the squared distances a corner can have, tabulated
WeightOf == [n \in 0..(3 * Den * Den) |-> Weight(n)]

\* the index tuple (zi + d2, yi + d2, xi + d2)
Index(cn) == <<cn[3] + d2, cn[2] + d2, cn[1] + d2>>

\* tensor indexing: an index in -D..D-1 is accepted, a negative one counts
\* from the end; any other raises IndexError
InBounds(i) == -D <= i /\ i < D
Wrap(i) == IF i < 0 THEN i + D ELSE i
Voxel(ix) == <<Wrap(ix[1]), Wrap(ix[2]), Wrap(ix[3])>>

\* the samples of a slice that share an index tuple with another sample in
\* some add_for_corner call
Shares(ff_coord) ==
    \E j \in 1..Len(CornerOrder) : \E k, l \in 1..Len(ff_coord) :
        /\ k # l
        /\ Index(Corner(ff_coord[k], CornerOrder[j]))
             = Index(Corner(ff_coord[l], CornerOrder[j]))

\* "V[index] += w * ff" reads V at the index tuples, adds, and writes back
\* without accumulation: of several samples with one index tuple only the write
\* that lands last stays, and the order in which the writes of one statement
\* land is not defined.  An order is a permutation of the samples; an add_slice
\* call draws one for its statements on V and one for its statements on counts.
Orders(ff_coord) ==
    LET M == Len(ff_coord)
    IN  IF Shares(ff_coord)
        THEN {o \in [1..M -> 1..M] : \A k, l \in 1..M : o[k] = o[l] => k = l}
        ELSE {[k \in 1..M |-> k]}

\* the write of sample k stays if no sample with the same index tuple lands
\* later in the order ord
Stays(sm, ord, k) == \A l \in 1..Len(sm) : sm[l].vx = sm[k].vx => ord[l] <= ord[k]

\* the indexed "+=" of one statement: vol[vx] + w * ff (on V) or vol[vx] + w (on
\* counts) is written for every sample, in the order ord
RECURSIVE index_add(_, _, _, _, _)
index_add(vol, sm, onV, ord, k) ==
    IF k > Len(sm) THEN vol
    ELSE index_add(IF Stays(sm, ord, k)
                   THEN [vol EXCEPT ![sm[k].vx] = Plus(@, IF onV THEN sm[k].wf ELSE sm[k].w)]
                   ELSE vol,
                   sm, onV, ord, k + 1)

\* per sample k, k + 1, ... of the slice: the voxel of its corner, its weight w
\* and w * ff
RECURSIVE corner_samples(_, _, _, _)
corner_samples(ff_coord, ffs, sel, k) ==
    IF k > Len(ff_coord) THEN <<>>
    ELSE LET cn == Corner(ff_coord[k], sel)
             w == WeightOf[Dist2(cn, ff_coord[k])]
         IN  <<[vx |-> Voxel(Index(cn)), w |-> w, wf |-> Times(ffs[k], w)]>>
                \o corner_samples(ff_coord, ffs, sel, k + 1)

\* some index of some sample is one that tensor indexing does not accept
out_of_bounds(ff_coord, sel) ==
    \E k \in 1..Len(ff_coord) : \E a \in 1..3 :
        ~InBounds(Index(Corner(ff_coord[k], sel))[a])

\* One add_for_corner call on the accumulators st = [V, counts, raised], the
\* writes on V landing in order ordV and those on counts in order ordC.
add_for_corner(st, ff_coord, ffs, sel, ordV, ordC) ==
    IF out_of_bounds(ff_coord, sel)
    THEN [st EXCEPT !.raised = TRUE]
    ELSE CHOOSE nx \in
            {[V |-> index_add(st.V, sm, TRUE, ordV, 1),
              counts |-> index_add(st.counts, sm, FALSE, ordC, 1),
              raised |-> FALSE] : sm \in {corner_samples(ff_coord, ffs, sel, 1)}} : TRUE

RECURSIVE corner_calls(_, _, _, _, _, _)
corner_calls(st, ff_coord, ffs, ordV, ordC, j) ==
    IF j > Len(CornerOrder) \/ st.raised THEN st
    ELSE corner_calls(add_for_corner(st, ff_coord, ffs, CornerOrder[j], ordV, ordC),
                      ff_coord, ffs, ordV, ordC, j + 1)

\* add_slice(V, counts, ff_coord, ff, D): the accumulators it leaves; raised
\* says the call ended in IndexError, the earlier corner calls' writes kept
add_slice(Vol, cnt, ff_coord, ffs, ordV, ordC) ==
    corner_calls([V |-> Vol, counts |-> cnt, raised |-> FALSE],
                 ff_coord, ffs, ordV, ordC, 1)

\* counts[counts == 0] = 1
substitute(cnt) == [x \in Voxels |-> IF cnt[x] = Zero THEN One ELSE cnt[x]]
\* V /= counts: the quotient, kept as numerator and denominator
divide(Vol, cnt) == [x \in Voxels |-> [num |-> Vol[x], den |-> cnt[x]]]
\* V[0:-1, 0:-1, 0:-1]: the volume handed to fft.ihtn_center and written
crop(Vol) == [x \in (0..(D - 2)) \X (0..(D - 2)) \X (0..(D - 2)) |-> Vol[x]]

\* ---- the collaborators of main
Min(a, b) == IF a < b THEN a ELSE b
\* range(n)
range(n) == [k \in 1..n |-> k - 1]
\* the iterator of the loop over the images
Iterator_all(first, Nimg) == range(Nimg)
Iterator(first, Nimg) == IF first # 0 THEN range(Min(first, Nimg)) ELSE range(Nimg)

\* Lattice(D, extent=D // 2): the D * D points (x, y, 0), x fastest, of the plane
\* z = 0, and its circular mask of radius D // 2
LatticePoint(n) == <<((n - 1) % D) - d2, ((n - 1) \div D) - d2, 0>>
InMask(p) == p[1] * p[1] + p[2] * p[2] <= d2 * d2
MaskedPoints == SelectSeq([n \in 1..(D * D) |-> LatticePoint(n)], InMask)
M == Len(MaskedPoints)
\* lattice.coords[mask], as numerators over Den
MaskedCoords == [k \in 1..M |-> <<Den * MaskedPoints[k][1], Den * MaskedPoints[k][2], 0>>]

\* the poses: rotations by quarter turns (the identity, about z, about x)
Rots ==
    << << <<1, 0, 0>>, <<0, 1, 0>>, <<0, 0, 1>> >>,
       << <<0, -1, 0>>, <<1, 0, 0>>, <<0, 0, 1>> >>,
       << <<1, 0, 0>>, <<0, 0, -1>>, <<0, 1, 0>> >> >>
\* posetracker.get_pose(ii): the rotation, and the translation (in pixels)
get_rot(i) == Rots[(i % Len(Rots)) + 1]
get_trans(i) == <<HalfD, HalfD * (i % 2)>>
\* utils.xrot(args.tilt_deg), for a tilt of 90 degrees
xrot == << <<1, 0, 0>>, <<0, 0, -1>>, <<0, 1, 0>> >>
\* the row vector p times the matrix r
MatMul(p, r) ==
    << p[1] * r[1][1] + p[2] * r[2][1] + p[3] * r[3][1],
       p[1] * r[1][2] + p[2] * r[2][2] + p[3] * r[3][2],
       p[1] * r[1][3] + p[2] * r[2][3] + p[3] * r[3][3] >>
\* lattice.coords[mask] @ r
Rotated(r) == [k \in 1..M |-> MatMul(MaskedCoords[k], r)]
\* lattice.coords[mask] @ tilt @ r
TiltRotated(r) == [k \in 1..M |-> MatMul(MatMul(MaskedCoords[k], xrot), r)]

\* data[i]: the masked coefficients of image i and of its paired tilt image
particle(i) == [k \in 1..M |-> 2 * (i + 1) + 2 * (k % 2)]
tilt_image(i) == [k \in 1..M |-> 2 * (i + 2) + 2 * (k % 2)]
\* ctf.compute_ctf(freqs, *ctf_params[i, 1:]).view(-1)[mask].sign(): the sign
\* alternates from one frequency ring to the next, from a phase set by the row
ctf_sign(i) ==
    [k \in 1..M |->
        IF (MaskedPoints[k][1] * MaskedPoints[k][1]
            + MaskedPoints[k][2] * MaskedPoints[k][2] + i) % 2 = 0 THEN 1 ELSE -1]
\* ff *= c.sign()
multiply(img, sgn) == [k \in 1..M |-> img[k] * sgn[k]]
\* lattice.translate_ht(ff, t, mask): cos(a) * ff + sin(a) * reversed(ff) with
\* a = 2 * pi * freq . t and freq = point / (2 * extent); the translations are
\* multiples of HalfD pixels, so a is a multiple of pi: cos(a) = +-1, sin(a) = 0
translate_ht(img, t) ==
    [k \in 1..M |->
        IF ((MaskedPoints[k][1] * t[1] + MaskedPoints[k][2] * t[2]) \div HalfD) % 2 = 0
        THEN img[k] ELSE -img[k]]
\* data.tilt_angles[i], in degrees; data.dose_per_tilt is 0
tilt_angles(i) == IF i % 2 = 0 THEN 0 ELSE 60
\* ff * exp(-cumulative_dose / critical_exposure) * cos(tilt_angles[i] * pi / 180):
\* the dose is 0, so the exponential is 1; cos is 1 at 0 degrees, 1/2 at 60
attenuate(img, i) == [k \in 1..M |-> IF tilt_angles(i) = 0 THEN img[k] ELSE img[k] \div 2]

\* the order in which main applies the corrections to ff before add_slice
PipelineSwapped == <<"translate", "ctf_sign", "dose">>
PipelineOrder == <<"ctf_sign", "translate", "dose">>
\* the statement that follows the correction step
After(step) ==
    LET n == CHOOSE k \in 1..Len(PipelineOrder) : PipelineOrder[k] = step
    IN  IF n < Len(PipelineOrder) THEN PipelineOrder[n + 1] ELSE "add_slice"

VARIABLES
    V,           \* the accumulator volume (after V /= counts: the quotient); <<>> before it is allocated
    counts,      \* the weight volume; <<>> before it is allocated
    raised,      \* the exception that ended the run, or "none"
    pc,          \* the statement the run is at
    calls,       \* history: the add_slice calls made so far
    args,        \* main: the command line (first, tilt, do_tilt_series, ctf)
    inputs,      \* main: what the input files hold (N, paired, trans, ctf_rows)
    ctf_params,  \* main: is_none, or the number of rows of the table
    iterator,    \* main: the indices the loop has still to visit
    ii,          \* main: the loop index (-1 before the first iteration)
    ff,          \* main: the masked coefficients of the current image
    ff_tilt,     \* main: those of its tilt image (<<>> for None)
    c,           \* main: the CTF signs of the current image (<<>> for None)
    applied,     \* history: the corrections applied to ff so far
    normalized,  \* history: how many times V /= counts ran
    out,         \* main: the volume written (<<>> before)
    images,      \* subsets: the slices of the image set
    whole,       \* subsets: the images the single run has accumulated, in order
    subset,      \* subsets: the subset (1 or 2) that accumulated image i, 0 if none yet
    pair         \* subsets: the (V, counts) of the two subsets

vars ==
    <<V, counts, raised, pc, calls, args, inputs, ctf_params, iterator, ii, ff,
      ff_tilt, c, applied, normalized, out, images, whole, subset, pair>>
mainVars ==
    <<args, inputs, ctf_params, iterator, ii, ff, ff_tilt, c, applied, normalized, out>>
subsetVars == <<images, whole, subset, pair>>

\* the variables of main, where main does not run
NoMain ==
    /\ args = <<>>
    /\ inputs = <<>>
    /\ ctf_params = <<>>
    /\ iterator = <<>>
    /\ ii = -1
    /\ ff = <<>>
    /\ ff_tilt = <<>>
    /\ c = <<>>
    /\ applied = <<>>
    /\ normalized = 0
    /\ out = <<>>
\* the variables of the subsets, where there are none
NoSubsets ==
    /\ images = <<>>
    /\ whole = <<>>
    /\ subset = <<>>
    /\ pair = <<>>

\* ---- the splat on its own: add_slice calls on zeroed volumes, then the
\* ---- terminal counts substitution and division
XRange == (-(d2 * Den + Margin))..(d2 * Den + Margin)
Points == XRange \X (0..MaxY) \X (0..MaxZ)
Values == 1..MaxVal
Slices(n) ==
    UNION {[ff_coord : [1..m -> Points], ff : [1..m -> Values]] : m \in 1..n}

RECURSIVE Splatted(_)
Splatted(cs) == IF cs = <<>> THEN 0 ELSE Len(Head(cs).ff) + Splatted(Tail(cs))

InitSlice ==
    /\ V = ZeroVolume
    /\ counts = ZeroVolume
    /\ raised = "none"
    /\ calls = <<>>
    /\ pc = "add_slice"
    /\ NoMain
    /\ NoSubsets

SliceCall ==
    /\ pc = "add_slice"
    /\ \E s \in Slices(MaxSamples - Splatted(calls)) :
        \E ordV, ordC \in Orders(s.ff_coord) :
            \E st \in {add_slice(V, counts, s.ff_coord, s.ff, ordV, ordC)} :
                /\ V' = st.V
                /\ counts' = st.counts
                /\ raised' = IF st.raised THEN "IndexError" ELSE "none"
                /\ pc' = IF st.raised THEN "failed" ELSE "add_slice"
                /\ calls' = Append(calls, s)
    /\ UNCHANGED <<mainVars, subsetVars>>

SliceNormalize ==
    /\ pc = "add_slice"
    /\ counts' = substitute(counts)
    /\ V' = divide(V, counts')
    /\ pc' = "done"
    /\ UNCHANGED <<raised, calls, mainVars, subsetVars>>

NextSlice == SliceCall \/ SliceNormalize

SpecSlice == InitSlice /\ [][NextSlice]_vars

\* ---- the driver main
Firsts == (-1)..MaxFirst

\* one add_slice call of main, as the history keeps it
Call(kind, coord) ==
    [ff_coord |-> coord, ff |-> IF kind = "primary" THEN ff ELSE ff_tilt,
     ii |-> ii, kind |-> kind, applied |-> applied]

Init ==
    /\ args \in [first : Firsts, tilt : BOOLEAN, do_tilt_series : BOOLEAN, ctf : BOOLEAN]
    /\ inputs \in [N : 1..MaxImg, paired : BOOLEAN, trans : BOOLEAN, ctf_rows : 0..MaxRows]
    /\ args.ctf \/ inputs.ctf_rows = 0
    /\ ctf_params = [is_none |-> TRUE, rows |-> 0]
    /\ V = <<>>
    /\ counts = <<>>
    /\ raised = "none"
    /\ pc = "load"
    /\ calls = <<>>
    /\ iterator = <<>>
    /\ ii = -1
    /\ ff = <<>>
    /\ ff_tilt = <<>>
    /\ c = <<>>
    /\ applied = <<>>
    /\ normalized = 0
    /\ out = <<>>
    /\ NoSubsets

\* lines 145-194: the dataset, the lattice, the poses, the CTF table, Apix
Load ==
    /\ pc = "load"
    /\ IF args.ctf /\ args.do_tilt_series /\ inputs.ctf_rows # inputs.N
       THEN \* np.concatenate of the table with data.ctfscalefactor (N entries)
            /\ raised' = "ValueError"
            /\ pc' = "failed"
            /\ UNCHANGED ctf_params
       ELSE IF args.ctf /\ inputs.ctf_rows = 0
       THEN \* Apix = float(ctf_params[0, 0])
            /\ raised' = "IndexError"
            /\ pc' = "failed"
            /\ UNCHANGED ctf_params
       ELSE /\ ctf_params' = [is_none |-> ~args.ctf, rows |-> inputs.ctf_rows]
            /\ pc' = "allocate"
            /\ UNCHANGED raised
    /\ UNCHANGED <<V, counts, calls, args, inputs, iterator, ii, ff, ff_tilt, c,
                   applied, normalized, out, subsetVars>>

\* lines 196-205: the zeroed volumes, the mask, the iterator
Allocate ==
    /\ pc = "allocate"
    /\ V' = ZeroVolume
    /\ counts' = ZeroVolume
    /\ args' = [args EXCEPT !.first = IF @ # 0 THEN Min(@, inputs.N) ELSE @]
    /\ iterator' = Iterator(args.first, inputs.N)
    /\ pc' = "for"
    /\ UNCHANGED <<raised, calls, inputs, ctf_params, ii, ff, ff_tilt, c, applied,
                   normalized, out, subsetVars>>

\* line 207: for ii in iterator
ForNext ==
    /\ pc = "for"
    /\ IF iterator = <<>>
       THEN /\ pc' = "normalize"
            /\ UNCHANGED <<ii, iterator>>
       ELSE /\ ii' = Head(iterator)
            /\ iterator' = Tail(iterator)
            /\ pc' = "fetch"
    /\ UNCHANGED <<V, counts, raised, calls, args, inputs, ctf_params, ff, ff_tilt,
                   c, applied, normalized, out, subsetVars>>

\* lines 210-221: the pose and the image of this iteration
Fetch ==
    /\ pc = "fetch"
    /\ IF args.do_tilt_series
       THEN \* data.get_tilt(index): the name index is not defined
            /\ raised' = "NameError"
            /\ pc' = "failed"
            /\ UNCHANGED <<ff, ff_tilt, c, applied>>
       ELSE /\ ff' = particle(ii)
            /\ ff_tilt' = IF args.tilt /\ inputs.paired THEN tilt_image(ii) ELSE <<>>
            /\ c' = <<>>
            /\ applied' = <<>>
            /\ pc' = PipelineOrder[1]
            /\ UNCHANGED raised
    /\ UNCHANGED <<V, counts, calls, args, inputs, ctf_params, iterator, ii,
                   normalized, out, subsetVars>>

\* lines 222-225: if ctf_params is not None: ff *= c.sign()
CtfSign ==
    /\ pc = "ctf_sign"
    /\ IF ctf_params.is_none
       THEN /\ pc' = After("ctf_sign")
            /\ UNCHANGED <<raised, ff, c, applied>>
       ELSE IF ii >= ctf_params.rows
       THEN \* ctf_params[ii, 0]
            /\ raised' = "IndexError"
            /\ pc' = "failed"
            /\ UNCHANGED <<ff, c, applied>>
       ELSE /\ c' = ctf_sign(ii)
            /\ ff' = multiply(ff, c')
            /\ applied' = Append(applied, "ctf_sign")
            /\ pc' = After("ctf_sign")
            /\ UNCHANGED raised
    /\ UNCHANGED <<V, counts, calls, args, inputs, ctf_params, iterator, ii, ff_tilt,
                   normalized, out, subsetVars>>

\* lines 226-227: if t is not None: ff = lattice.translate_ht(ff, t, mask)
Translate ==
    /\ pc = "translate"
    /\ IF inputs.trans
       THEN /\ ff' = translate_ht(ff, get_trans(ii))
            /\ applied' = Append(applied, "translate")
       ELSE UNCHANGED <<ff, applied>>
    /\ pc' = After("translate")
    /\ UNCHANGED <<V, counts, raised, calls, args, inputs, ctf_params, iterator, ii,
                   ff_tilt, c, normalized, out, subsetVars>>

\* lines 228-236: if args.do_tilt_series: the dose and tilt angle attenuation
Dose ==
    /\ pc = "dose"
    /\ IF ~args.do_tilt_series
       THEN /\ pc' = After("dose")
            /\ UNCHANGED <<raised, ff, applied>>
       ELSE IF ctf_params.is_none
       THEN \* ctf_params[ii, 0] on None
            /\ raised' = "TypeError"
            /\ pc' = "failed"
            /\ UNCHANGED <<ff, applied>>
       ELSE IF ii >= ctf_params.rows
       THEN /\ raised' = "IndexError"
            /\ pc' = "failed"
            /\ UNCHANGED <<ff, applied>>
       ELSE /\ ff' = attenuate(ff, ii)
            /\ applied' = Append(applied, "dose")
            /\ pc' = After("dose")
            /\ UNCHANGED raised
    /\ UNCHANGED <<V, counts, calls, args, inputs, ctf_params, iterator, ii, ff_tilt,
                   c, normalized, out, subsetVars>>

\* lines 238-239: ff_coord = lattice.coords[mask] @ r; add_slice(V, counts, ff_coord, ff, D)
AddSlice ==
    /\ pc = "add_slice"
    /\ \E ff_coord \in {Rotated(get_rot(ii))} :
        \E ordV, ordC \in Orders(ff_coord) :
            \E st \in {add_slice(V, counts, ff_coord, ff, ordV, ordC)} :
                /\ V' = st.V
                /\ counts' = st.counts
                /\ raised' = IF st.raised THEN "IndexError" ELSE "none"
                /\ pc' = IF st.raised THEN "failed" ELSE "tilt"
                /\ calls' = Append(calls, Call("primary", ff_coord))
    /\ UNCHANGED <<args, inputs, ctf_params, iterator, ii, ff, ff_tilt, c, applied,
                   normalized, out, subsetVars>>

\* the corrections of the tilt image: ff_tilt *= c.sign(), then translate_ht
tilt_signed == IF c # <<>> THEN multiply(ff_tilt, c) ELSE ff_tilt
tilt_corrected ==
    IF inputs.trans THEN translate_ht(tilt_signed, get_trans(ii)) ELSE tilt_signed
tilt_applied ==
    (IF c # <<>> THEN <<"ctf_sign">> ELSE <<>>)
        \o (IF inputs.trans THEN <<"translate">> ELSE <<>>)

\* lines 242-252: if ff_tilt is not None: correct it and add_slice it
Tilt ==
    /\ pc = "tilt"
    /\ IF ff_tilt = <<>>
       THEN /\ pc' = "for"
            /\ UNCHANGED <<V, counts, raised, calls, ff_tilt, applied>>
       ELSE /\ ff_tilt' = tilt_corrected
            /\ applied' = tilt_applied
            /\ \E ff_coord \in {TiltRotated(get_rot(ii))} :
                \E ordV, ordC \in Orders(ff_coord) :
                    \E st \in {add_slice(V, counts, ff_coord, ff_tilt', ordV, ordC)} :
                        /\ V' = st.V
                        /\ counts' = st.counts
                        /\ raised' = IF st.raised THEN "IndexError" ELSE "none"
                        /\ pc' = IF st.raised THEN "failed" ELSE "for"
                        /\ calls' = Append(calls,
                                [ff_coord |-> ff_coord, ff |-> ff_tilt', ii |-> ii,
                                 kind |-> "tilt", applied |-> applied'])
    /\ UNCHANGED <<args, inputs, ctf_params, iterator, ii, ff, c, normalized, out,
                   subsetVars>>

\* lines 260-263: counts[counts == 0] = 1; V /= counts; crop, invert and write
Normalize ==
    /\ pc = "normalize"
    /\ counts' = substitute(counts)
    /\ V' = divide(V, counts')
    /\ out' = crop(V')
    /\ normalized' = normalized + 1
    /\ pc' = "done"
    /\ UNCHANGED <<raised, calls, args, inputs, ctf_params, iterator, ii, ff, ff_tilt,
                   c, applied, subsetVars>>

Next ==
    \/ Load
    \/ Allocate
    \/ ForNext
    \/ Fetch
    \/ CtfSign
    \/ Translate
    \/ Dose
    \/ AddSlice
    \/ Tilt
    \/ Normalize

Spec == Init /\ [][Next]_vars

\* ---- one image set accumulated by a single run and, split in two subsets,
\* ---- by two runs of their own (the loop of main, lines 207-252, per run)
\* two samples of one unit cell: the vertex and the point 1 / Den along x
SubsetPoints == {<<0, 0, 0>>, <<1, 0, 0>>}
\* the slices of 1..MaxSamples such samples, sample k of coefficient k
SubsetSlices ==
    UNION {{[ff_coord |-> fc, ff |-> [k \in 1..m |-> k]] : fc \in [1..m -> SubsetPoints]} :
            m \in 1..MaxSamples}

InitSubsets ==
    /\ images \in [1..SubsetImages -> SubsetSlices]
    /\ whole = <<>>
    /\ subset = [i \in 1..SubsetImages |-> 0]
    /\ pair = [s \in 1..2 |-> [V |-> ZeroVolume, counts |-> ZeroVolume]]
    /\ V = ZeroVolume
    /\ counts = ZeroVolume
    /\ raised = "none"
    /\ pc = "for"
    /\ calls = <<>>
    /\ NoMain

\* the single run accumulates one more image
WholeAdd ==
    /\ \E i \in 1..SubsetImages :
        /\ \A n \in 1..Len(whole) : whole[n] # i
        /\ \E ordV, ordC \in Orders(images[i].ff_coord) :
            \E st \in {add_slice(V, counts, images[i].ff_coord, images[i].ff, ordV, ordC)} :
                /\ V' = st.V
                /\ counts' = st.counts
                /\ raised' = IF st.raised THEN "IndexError" ELSE raised
                /\ whole' = Append(whole, i)
                /\ calls' = Append(calls, images[i])
    /\ UNCHANGED <<pc, mainVars, images, subset, pair>>

\* the run of one of the two subsets accumulates one more image
SubsetAdd ==
    /\ \E i \in 1..SubsetImages :
        /\ subset[i] = 0
        /\ \E s \in 1..2 :
            \E ordV, ordC \in Orders(images[i].ff_coord) :
                \E st \in {add_slice(pair[s].V, pair[s].counts,
                                     images[i].ff_coord, images[i].ff, ordV, ordC)} :
                    /\ pair' = [pair EXCEPT ![s] = [V |-> st.V, counts |-> st.counts]]
                    /\ raised' = IF st.raised THEN "IndexError" ELSE raised
                    /\ subset' = [subset EXCEPT ![i] = s]
    /\ UNCHANGED <<V, counts, pc, calls, mainVars, images, whole>>

NextSubsets == WholeAdd \/ SubsetAdd

SpecSubsets == InitSubsets /\ [][NextSubsets]_vars

\* ---- the coordinates main passes to add_slice (lines 238 and 251), for the
\* ---- poses whose rotation has entries that are multiples of 1 / Den
UnitVectors ==
    {v \in (-Den..Den) \X (-Den..Den) \X (-Den..Den) :
        v[1] * v[1] + v[2] * v[2] + v[3] * v[3] = Den * Den}
Dot(a, b) == a[1] * b[1] + a[2] * b[2] + a[3] * b[3]
Cross(a, b) ==
    << a[2] * b[3] - a[3] * b[2], a[3] * b[1] - a[1] * b[3], a[1] * b[2] - a[2] * b[1] >>
\* the orthonormal matrices of determinant 1, entries as numerators over Den:
\* two orthogonal unit rows and their cross product
Rotations ==
    {<<rows[1], rows[2],
       <<Cross(rows[1], rows[2])[1] \div Den, Cross(rows[1], rows[2])[2] \div Den,
         Cross(rows[1], rows[2])[3] \div Den>> >> :
        rows \in {ab \in UnitVectors \X UnitVectors :
                    /\ Dot(ab[1], ab[2]) = 0
                    /\ \A a \in 1..3 : Cross(ab[1], ab[2])[a] % Den = 0}}
\* lattice.coords[mask] @ r, and lattice.coords[mask] @ tilt @ r, as numerators
\* over Den (the lattice points are whole, the entries of r are numerators)
RotatedBy(r) == [k \in 1..M |-> MatMul(MaskedPoints[k], r)]
TiltRotatedBy(r) == [k \in 1..M |-> MatMul(MatMul(MaskedPoints[k], xrot), r)]

InitCoords ==
    /\ V = ZeroVolume
    /\ counts = ZeroVolume
    /\ raised = "none"
    /\ pc = "add_slice"
    /\ calls = <<>>
    /\ NoMain
    /\ NoSubsets

\* the indexing of one add_slice call of main, for the primary image or the
\* tilt image of any pose: the index tuples of the eight add_for_corner calls
\* are those of calls' ff_coord, and the call raises if one is not accepted
\* (the sums written under the index tuples are what SliceCall is about)
CoordsCall ==
    /\ pc = "add_slice"
    /\ \E r \in Rotations : \E kind \in {"primary", "tilt"} :
        \E ff_coord \in {IF kind = "primary" THEN RotatedBy(r) ELSE TiltRotatedBy(r)} :
            \E fails \in {\E j \in 1..Len(CornerOrder) : out_of_bounds(ff_coord, CornerOrder[j])} :
                /\ calls' = Append(calls, [ff_coord |-> ff_coord, ff |-> particle(0), kind |-> kind])
                /\ raised' = IF fails THEN "IndexError" ELSE "none"
                /\ pc' = IF fails THEN "failed" ELSE "done"
    /\ UNCHANGED <<V, counts, mainVars, subsetVars>>

NextCoords == CoordsCall

SpecCoords == InitCoords /\ [][NextCoords]_vars

\* ---- what the volumes should hold after the calls so far: the sum, over all
\* ---- (sample, corner) pairs whose index tuple is the voxel x, of the weight
\* ---- (times the coefficient, for V); a pair outside the volume adds nothing
RECURSIVE PairSum(_, _, _, _)
PairSum(s, x, n, coef) ==
    IF n = 0 THEN Zero
    ELSE \* pair n is sample k, corner call j
         LET k == ((n - 1) \div Len(CornerOrder)) + 1
             j == ((n - 1) % Len(CornerOrder)) + 1
             cn == Corner(s.ff_coord[k], CornerOrder[j])
         IN  IF Index(cn) = x
             THEN Plus(PairSum(s, x, n - 1, coef),
                       Times(IF coef THEN s.ff[k] ELSE 1, WeightOf[Dist2(cn, s.ff_coord[k])]))
             ELSE PairSum(s, x, n - 1, coef)
RECURSIVE CallSum(_, _, _)
CallSum(cs, x, coef) ==
    IF cs = <<>> THEN Zero
    ELSE Plus(PairSum(Head(cs), x, Len(CornerOrder) * Len(Head(cs).ff), coef),
              CallSum(Tail(cs), x, coef))
SumOfAllPairs(cs, coef) == [x \in Voxels |-> CallSum(cs, x, coef)]

\* some corner of some sample of the calls lies outside the volume
OutOfRange(cs) ==
    \E i \in 1..Len(cs) : \E k \in 1..Len(cs[i].ff) : \E j \in 1..Len(CornerOrder) :
        \E a \in 1..3 : Index(Corner(cs[i].ff_coord[k], CornerOrder[j]))[a] \notin Idx
\* two samples of one call share an index tuple
Sharing(cs) == \E i \in 1..Len(cs) : Shares(cs[i].ff_coord)
IsVertex(p) == \A a \in 1..3 : p[a] % Den = 0

\* C1: after a single add_slice call on zeroed volumes with exactly one sample,
\* on an integer vertex inside the volume, counts holds weight 1 at that vertex
\* and 0 elsewhere, and V holds 1 * v there.
C1_SingleDeposit ==
    (/\ pc = "add_slice"
     /\ Len(calls) = 1
     /\ Len(calls[1].ff) = 1
     /\ IsVertex(calls[1].ff_coord[1])
     /\ ~OutOfRange(calls))
    => LET p == calls[1].ff_coord[1]
           vertex == Index(<<p[1] \div Den, p[2] \div Den, p[3] \div Den>>)
       IN  /\ raised = "none"
           /\ counts = [x \in Voxels |-> IF x = vertex THEN One ELSE Zero]
           /\ V = [x \in Voxels |-> IF x = vertex THEN Times(calls[1].ff[1], One) ELSE Zero]

\* C2: a call with a corner outside the volume does not raise, writes nothing
\* for that corner and still deposits the corners inside (calls in which no
\* two samples share a voxel, so that every deposit inside is kept).
C2_OutOfRangeDropped ==
    (pc = "add_slice" /\ OutOfRange(calls) /\ ~Sharing(calls))
    => /\ raised = "none"
       /\ counts = SumOfAllPairs(calls, FALSE)
       /\ V = SumOfAllPairs(calls, TRUE)

\* C4: after any sequence of add_slice calls on zeroed volumes (all corners
\* inside the volume), counts[x] is the sum of the weights and V[x] the sum of
\* weight * value over all (sample, corner) pairs of all calls with index x.
C4_SumOfAllPairs ==
    (pc = "add_slice" /\ ~OutOfRange(calls))
    => /\ raised = "none"
       /\ counts = SumOfAllPairs(calls, FALSE)
       /\ V = SumOfAllPairs(calls, TRUE)

\* C5: at the terminal step every voxel of weight 0 has accumulator 0, gets
\* counts = 1 and quotient 0; no voxel is divided by 0, and a voxel of non-zero
\* weight is divided by its own weight.
C5_ZeroWeightVoxels ==
    [][(pc = "add_slice" /\ pc' = "done")
        => \A x \in Voxels :
            /\ counts[x] = Zero => (V[x] = Zero /\ counts'[x] = One /\ V'[x].num = Zero)
            /\ counts[x] # Zero => (counts'[x] = counts[x] /\ V'[x].den = counts[x])
            /\ V'[x].den # Zero]_vars

\* ---- the two subsets against the single run
\* every image is accumulated by the single run and by one of the two runs of
\* the subsets, neither subset empty
AllAccumulated ==
    /\ Len(whole) = SubsetImages
    /\ \A s \in 1..2 : \E i \in 1..SubsetImages : subset[i] = s
    /\ \A i \in 1..SubsetImages : subset[i] # 0

\* C3: for any image set split in two subsets, in any processing order, the
\* voxel by voxel sum of the two subsets' (V, counts) equals the (V, counts)
\* of the single run over the whole set.
C3_SubsetsAddUp ==
    AllAccumulated
    => \A x \in Voxels :
        /\ V[x] = Plus(pair[1].V[x], pair[2].V[x])
        /\ counts[x] = Plus(pair[1].counts[x], pair[2].counts[x])

\* ---- the driver
RECURSIVE PrimaryIndices(_)
PrimaryIndices(cs) ==
    IF cs = <<>> THEN <<>>
    ELSE (IF Head(cs).kind = "primary" THEN <<Head(cs).ii>> ELSE <<>>)
            \o PrimaryIndices(Tail(cs))
\* the number of images main is asked to accumulate: all N of them if --first
\* is 0, else the first min(first, N) of them (none if that is negative)
Selected ==
    IF args.first = 0 THEN inputs.N
    ELSE IF args.first < 0 THEN 0
    ELSE IF args.first < inputs.N THEN args.first ELSE inputs.N

\* C6 (as the code has it): the primary add_slice calls are made for the indices
\* 0, 1, 2, ... in increasing order, each once, and never for more than the
\* first min(first, N) images (all N if first is 0); V /= counts runs once, at
\* the end of a run that completes, and then exactly those images have been
\* accumulated.
C6_FirstImagesOnce ==
    LET idx == PrimaryIndices(calls)
    IN  /\ \A k \in 1..Len(idx) : idx[k] = k - 1
        /\ Len(idx) <= Selected
        /\ normalized = (IF pc = "done" THEN 1 ELSE 0)
        /\ pc = "done" => Len(idx) = Selected
\* a completed run in which --first cut the image set short
C6_Witness ==
    /\ pc = "done"
    /\ args.first > 0
    /\ args.first < inputs.N
    /\ Len(PrimaryIndices(calls)) = args.first
\* C6 (as stated): in a completed run every image index in [0, N) has been
\* accumulated exactly once as a primary image, in increasing order, whatever
\* the value of --first (here: any value that is not negative).
C6_EveryImageOnce ==
    (pc = "done" /\ args.first >= 0)
    => PrimaryIndices(calls) = [k \in 1..inputs.N |-> k - 1]

\* a configuration error: tilt-series mode without a CTF file, or a tilt stack
\* without tilt-series data, or tilt-series data without a tilt stack
ConfigError ==
    \/ args.do_tilt_series /\ ~args.ctf
    \/ args.tilt # args.do_tilt_series
\* C7: a run with a configuration error fails at startup: V and counts are
\* never allocated, add_slice is never called, and the run does not complete.
C7_FailsAtStartup ==
    ConfigError => (V = <<>> /\ counts = <<>> /\ calls = <<>> /\ pc # "done")

\* C8: a run whose CTF table has a number of rows other than N fails before the
\* first add_slice call, with V and counts still zero, and does not complete
\* (here: the runs that select all N images).
C8_RowMismatchFailsFirst ==
    (args.ctf /\ inputs.ctf_rows # inputs.N /\ (args.first = 0 \/ args.first >= inputs.N))
    => /\ calls = <<>>
       /\ pc # "done"
       /\ pc = "failed" => (V \in {<<>>, ZeroVolume} /\ counts \in {<<>>, ZeroVolume})

\* C9: at every loop iteration ii, in tilt-series mode as in single-image mode,
\* the image fetched is the image of index ii.
C9_FetchesCurrentImage ==
    [][pc = "fetch" => (raised' = "none" /\ ff' = particle(ii))]_vars

\* the corrections that apply in this run
Applies(step) ==
    CASE step = "ctf_sign" -> args.ctf
      [] step = "translate" -> inputs.trans
      [] step = "dose" -> args.do_tilt_series
\* every add_slice call so far was made on coefficients corrected in this order
CorrectedInOrder(order) ==
    \A n \in 1..Len(calls) :
        calls[n].applied =
            SelectSeq(IF calls[n].kind = "primary" THEN order
                      ELSE SelectSeq(order, LAMBDA s : s # "dose"), Applies)

\* C10 (as the code has it): the corrections that apply are all applied before
\* the image's add_slice call, in the order CTF-sign multiplication, then
\* translation phase-shift, then dose/tilt-angle attenuation.
C10_CtfThenTranslate == CorrectedInOrder(<<"ctf_sign", "translate", "dose">>)
\* an image with a CTF row and a translation has been accumulated
C10_Witness ==
    \E n \in 1..Len(calls) : calls[n].applied = <<"ctf_sign", "translate">>
\* C10 (as stated): the order is translation phase-shift, then CTF-sign
\* multiplication, then dose/tilt-angle attenuation.
C10_TranslateThenCtf == CorrectedInOrder(<<"translate", "ctf_sign", "dose">>)

====
